---- MODULE Spec2Model ----
(***************************************************************************)
(* pynostr: the relay session client (client.py, class BaseThread), the    *)
(* event object (event.py, class Event) and their helpers, as state        *)
(* machines.                                                               *)
(*                                                                         *)
(*   Spec      the relay session client: caller, connection activities     *)
(*             (__loop), delivery activity (__manage_resp), relay          *)
(*   FairSpec  Spec with the scheduling of the two background activities   *)
(*   SpecApply the delivery activity's apply() fed a sequence of EVENT     *)
(*             frames                                                      *)
(*   SpecEvent one Event object under identify/sign/verify and attribute   *)
(*             assignment                                                  *)
(*   SpecCrypt Event.encrypt followed by Event.decrypt                     *)
(*   SpecPow   Event.set_pow_tag                                           *)
(*   SpecBech32 to_bech32 followed by from_bech32                          *)
(*   SpecTags  TagList.add_tag and TagList.reference                       *)
(*   SpecFilter Filter(cnf) followed by Filter.apply                       *)
(*   SpecSend  sessions of the client with signed events put in the        *)
(*             request queue                                               *)
(***************************************************************************)
EXTENDS Integers, Sequences, FiniteSets, TLC

VARIABLES
    \* ---- BaseThread (client.py) ----
    request,      \* self.request: queue.Queue of outbound requests
    response,     \* self.response: queue.Queue of inbound frames
    stop,         \* self.__stop: threading.Event
    sub_id,       \* self.__id (0 is None)
    filter,       \* self.__filter
    trace,        \* self.__trace: deque(maxlen=limit), newest first
    ws,           \* self.__ws: the connection __send_event writes to
    loop_pc,      \* position of each __loop coroutine, by subscribe() call
    loop_req,     \* the local `req` of each __loop inside __send_event
    conn_first,   \* first frame sent on the connection each __loop holds
    resp_pc,      \* position of the thread self.resp_daemon
    nsub,         \* number of subscribe() calls that started a session
    result,       \* outcome of the caller's last call
    closing,      \* history: an unsubscribe() of a live session is under way,
                  \* and the timeouts the connection activity ran into since
    loop_closed,  \* history: whether each __loop has taken a CLOSE request
                  \* from the queue, and a further request after that
    seen,         \* history: the events apply() has put in the window since
                  \* the last subscribe(), newest first, with whether each
                  \* was printed
    \* ---- apply() scenario (client.py) ----
    arrived,      \* ids of the EVENT frames handed to apply(), in order
    rendered,     \* number of those that passed the dedup check
    \* ---- Event (event.py) ----
    ev,           \* the Event instance's __dict__
    ev_out,       \* outcome of the last method call on it
    ev_base,      \* the five hashed fields as of the last identify()/sign()
    ev_n,         \* number of attribute assignments made to it
    ev_call,      \* the arguments of the last encrypt()/decrypt()/set_pow_tag()
    \* ---- bech32 helpers (__init__.py) and Filter (filter.py) ----
    b32,          \* arguments and results of to_bech32 / from_bech32
    flt           \* a Filter instance's __dict__ and what apply() returned

client_vars == <<request, response, stop, sub_id, filter, trace, ws, loop_pc,
                 loop_req, conn_first, resp_pc, nsub, result, closing,
                 loop_closed, seen>>
history_vars == <<closing, loop_closed, seen>>
apply_vars  == <<arrived, rendered>>
event_vars  == <<ev, ev_out, ev_base, ev_n, ev_call>>
pure_vars   == <<b32, flt>>
vars        == <<client_vars, apply_vars, event_vars, pure_vars>>

(***************************************************************************)
(* Bounds                                                                  *)
(***************************************************************************)
MaxSessions == 2      \* subscribe() calls that start a session
MaxRequest  == 1      \* requests waiting in self.request
MaxResponse == 1      \* relay frames waiting in self.response
NumEventIds == 1      \* distinct event ids the relay sends in Spec

Sessions == 1..MaxSessions
EventIds == 1..NumEventIds
\* the id of the event the relay sends with nothing to print in its content
BlankId == NumEventIds + 1
\* a window of distinct ids never needs more history than there are ids
MaxSeen == NumEventIds + 1

(***************************************************************************)
(* filter.py                                                               *)
(***************************************************************************)
DefaultLimit == 10

\* Filter(cnf, **kw): only `limit` matters to the client (deque maxlen)
Filter(cnf) == [limit |-> IF "limit" \in DOMAIN cnf THEN cnf.limit ELSE DefaultLimit]

\* the filters subscribe() is called with
FilterArgs == { [kinds |-> 1, limit |-> 1], [kinds |-> 1] }

(***************************************************************************)
(* Frames and requests                                                     *)
(***************************************************************************)
\* what goes over a connection: ["REQ", id, filter] or a request of the queue
Wire(type, sid, limit) == [type |-> type, sid |-> sid, limit |-> limit]
NoFrame == Wire("none", 0, 0)

\* A text frame in self.response.  txt is the text; for JSON text, head is
\* data[0] ("" for an empty array), id the event's id (0: no "id" key) and
\* full whether pubkey, created_at, kind and content are all present, blank
\* whether textwrap.wrap(content) yields no line.
\* from is "loop" for what __loop itself puts, "relay" for ws.recv() results.
Frame(txt, head, id, full, from) ==
    [txt |-> txt, head |-> head, id |-> id, full |-> full, blank |-> FALSE,
     from |-> from]

\* ["EVENT", subscription_id, event] with a complete event
EventFrame(id, blank) ==
    [txt |-> "json", head |-> "EVENT", id |-> id, full |-> TRUE,
     blank |-> blank, from |-> "relay"]

Sentinel == Frame("STOP", "", 0, FALSE, "loop")

RelayFrames ==
    { Frame("json", "EVENT", i, TRUE, "relay") : i \in EventIds }
    \cup { Frame("json", "EVENT", i, FALSE, "relay") : i \in {0, 1} }
    \cup { EventFrame(BlankId, TRUE) }
    \cup { Frame("json", "EOSE", 0, FALSE, "relay"),
           Frame("json", "", 0, FALSE, "relay"),
           Frame("garbage", "", 0, FALSE, "relay"),
           Frame("STOP", "", 0, FALSE, "relay") }

(***************************************************************************)
(* BaseThread.apply and __manage_resp                                      *)
(***************************************************************************)
\* a deque that never drops an item
AppendLeftMutantUnbounded(dq, x, maxlen) == <<x>> \o dq

\* deque.appendleft on a deque(maxlen=n): the rightmost item falls off
AppendLeft(dq, x, maxlen) ==
    IF maxlen = 0 THEN <<>>
    ELSE IF Len(dq) >= maxlen THEN <<x>> \o SubSeq(dq, 1, maxlen - 1)
    ELSE <<x>> \o dq

\* a membership test that never finds the id
InTraceMutantNever(dq, x) == FALSE

\* `_id in self.__trace`
InTrace(dq, x) == \E i \in 1..Len(dq) : dq[i] = x

\* json.loads(data): raises on text that is not JSON
JsonLoads(f) == IF f.txt = "json" THEN [ok |-> TRUE, data |-> f]
                ELSE [ok |-> FALSE, data |-> f]

\* apply(data) on trace dq with maxlen: [raised, trace, shown]
Apply(data, dq, maxlen) ==
    IF data.head = "" THEN        \* data[0] on []: IndexError
        [raised |-> TRUE, trace |-> dq, shown |-> FALSE]
    ELSE IF data.head = "EVENT" THEN
        IF data.id = 0 THEN       \* evnt["id"]: KeyError
            [raised |-> TRUE, trace |-> dq, shown |-> FALSE]
        ELSE IF InTrace(dq, data.id) THEN
            [raised |-> FALSE, trace |-> dq, shown |-> FALSE]
        ELSE IF ~data.full THEN   \* evnt["pubkey"] ...: KeyError, id recorded
            [raised |-> TRUE, trace |-> AppendLeft(dq, data.id, maxlen),
             shown |-> FALSE]
        ELSE                      \* `if content:` prints nothing when blank
            [raised |-> FALSE, trace |-> AppendLeft(dq, data.id, maxlen),
             shown |-> ~data.blank]
    ELSE
        [raised |-> FALSE, trace |-> dq, shown |-> FALSE]

(***************************************************************************)
(* Keys and primitives (pynostr/__init__.py, cSecp256k1, hashlib, pyaes)   *)
(***************************************************************************)
NumKeys == 3          \* private keys 1..NumKeys

Keys == 1..NumKeys

\* Optional values: None is <<>>, a value v is <<v>>
None == <<>>
Some(v) == <<v>>

PubTable == <<"P1", "P2", "P3", "P4", "P5">>

\* PrvKey.pubkey: the x coordinate of prvkey * G, as hex
PubKeyOf(k) == PubTable[k]

PubKeys == { PubKeyOf(k) : k \in Keys }

KeyOfPub(p) == CHOOSE k \in 1..Len(PubTable) : PubTable[k] = p

\* hashlib.sha256(b).hexdigest(), taken as collision-free
Sha256(bytes) == [sha256 |-> bytes]

\* prvkey.sign(serial).raw(): a signature by prvkey over the digest of serial
SchnorrSign(k, serial) == [key |-> k, msg |-> Sha256(serial)]

\* cSecp256k1._schnorr.verify(id, pubkey, sig[:64], sig[64:])
SchnorrVerify(id, pubkey, sig) == PubKeyOf(sig.key) = pubkey /\ sig.msg = id

(***************************************************************************)
(* Event (event.py)                                                        *)
(***************************************************************************)
\* Event(cnf): __init__ then load(cnf); created_at defaults to the clock
Event(pubkey, created_at, kind, tags, content) ==
    [id |-> None, pubkey |-> pubkey, created_at |-> created_at, kind |-> kind,
     tags |-> tags, content |-> content, sig |-> None]

NoEvent == Event(None, None, None, <<>>, None)

\* serialize(): [exc, bytes]
SerializeMutantNoContent(e) ==
    IF e.pubkey = None \/ e.created_at = None \/ e.kind = None \/ e.content = None
    THEN [exc |-> "EmptyEventException", bytes |-> <<>>]
    ELSE IF \E i \in 1..Len(e.tags) : Len(e.tags[i]) = 0
    THEN [exc |-> "EmptyTagException", bytes |-> <<>>]
    ELSE [exc |-> "",
          bytes |-> <<0, e.pubkey[1], e.created_at[1], e.kind[1], e.tags>>]

Serialize(e) ==
    IF e.pubkey = None \/ e.created_at = None \/ e.kind = None \/ e.content = None
    THEN [exc |-> "EmptyEventException", bytes |-> <<>>]
    ELSE IF \E i \in 1..Len(e.tags) : Len(e.tags[i]) = 0
    THEN [exc |-> "EmptyTagException", bytes |-> <<>>]
    ELSE [exc |-> "",
          bytes |-> <<0, e.pubkey[1], e.created_at[1], e.kind[1], e.tags,
                      e.content[1]>>]

\* an identify() that resets id before it serializes
IdentifyMutantResetFirst(e) ==
    LET s == Serialize(e) IN
    IF s.exc # "" THEN [exc |-> s.exc, ev |-> [e EXCEPT !.id = None]]
    ELSE [exc |-> "", ev |-> [e EXCEPT !.id = Some(Sha256(s.bytes))]]

\* identify(): [exc, ev]
Identify(e) ==
    LET s == Serialize(e) IN
    IF s.exc # "" THEN [exc |-> s.exc, ev |-> e]
    ELSE [exc |-> "", ev |-> [e EXCEPT !.id = Some(Sha256(s.bytes))]]

\* verify(): [exc, ret]
Verify(e) ==
    LET s == Serialize(e) IN
    IF s.exc # "" THEN [exc |-> s.exc, ret |-> FALSE]
    ELSE IF e.id # Some(Sha256(s.bytes)) THEN [exc |-> "IntegrityError", ret |-> FALSE]
    ELSE IF e.sig # None /\ SchnorrVerify(e.id[1], e.pubkey[1], e.sig[1])
    THEN [exc |-> "", ret |-> TRUE]
    ELSE [exc |-> "", ret |-> FALSE]

\* a sign() that serializes before it assigns pubkey
SignMutantPubkeyLast(e, k) ==
    LET s == Serialize(e) IN
    IF s.exc # "" THEN [exc |-> s.exc, ev |-> e]
    ELSE [exc |-> "",
          ev |-> [e EXCEPT !.pubkey = Some(PubKeyOf(k)),
                           !.id = Some(Sha256(s.bytes)),
                           !.sig = Some(SchnorrSign(k, s.bytes))]]

\* sign(prvkey): pubkey is assigned before serialize() can raise
Sign(e, k) ==
    LET e1 == [e EXCEPT !.pubkey = Some(PubKeyOf(k))]
        s  == Serialize(e1)
    IN  IF s.exc # "" THEN [exc |-> s.exc, ev |-> e1]
        ELSE [exc |-> "",
              ev |-> [e1 EXCEPT !.id = Some(Sha256(s.bytes)),
                                !.sig = Some(SchnorrSign(k, s.bytes))]]

\* `"sig" in evnt`: class Event defines none of __contains__, __iter__ and
\* __getitem__, so the operator raises TypeError
EventHasContains == FALSE

(***************************************************************************)
(* Caller operations (client.py)                                           *)
(***************************************************************************)
\* a request of self.request; `live` notes, for a CLOSE, whether a connection
\* activity and the delivery activity were running when it was enqueued
NoReq == [type |-> "none", sid |-> 0, ev |-> NoEvent, live |-> FALSE]
CloseReq(sid, live) == [type |-> "CLOSE", sid |-> sid, ev |-> NoEvent, live |-> live]
EventReq(e) == [type |-> "EVENT", sid |-> 0, ev |-> e, live |-> FALSE]

Running(s) == loop_pc[s] \notin {"idle", "done", "raised"}

\* history of an unsubscribe(): `on` from the unsubscribe() of a live session
\* until the delivery activity ends, `waited` the waits of the connection
\* activities that ran into their timeout meanwhile
MaxWaited == 2        \* timeouts counted after an unsubscribe()
NotClosing == [on |-> FALSE, waited |-> 0]
TimedOut(c) ==
    IF c.on /\ c.waited < MaxWaited THEN [c EXCEPT !.waited = c.waited + 1]
    ELSE c

RespAlive == resp_pc = "run"

\* the test subscribe() makes before it starts a session:
\* hasattr(self, "resp_daemon") and self.resp_daemon.is_alive()
SessionLive == RespAlive

\* subscribe(cnf)
subscribe(cnf) ==
    /\ nsub < MaxSessions
    /\ IF SessionLive
       THEN /\ result' = [op |-> "subscribe", err |-> "AlreadySubcribed"]
            /\ UNCHANGED <<request, response, stop, sub_id, filter, trace, ws,
                           loop_pc, loop_req, conn_first, resp_pc, nsub>>
            /\ UNCHANGED history_vars
       ELSE /\ filter' = Filter(cnf)
            /\ sub_id' = nsub + 1
            /\ stop' = FALSE
            /\ trace' = <<>>
            /\ resp_pc' = "run"
            /\ nsub' = nsub + 1
            /\ loop_pc' = [loop_pc EXCEPT ![nsub + 1] = "head"]
            /\ result' = [op |-> "subscribe", err |-> "none"]
            /\ closing' = NotClosing
            /\ seen' = <<>>
            /\ UNCHANGED <<request, response, ws, loop_req, conn_first,
                           loop_closed>>
    /\ UNCHANGED <<apply_vars, event_vars, pure_vars>>

\* unsubscribe(): self.request.put(["CLOSE", self.__id])
unsubscribe ==
    /\ Len(request) < MaxRequest
    /\ LET live == RespAlive /\ \E s \in Sessions : Running(s) IN
        /\ request' = Append(request, CloseReq(sub_id, live))
        /\ closing' = IF live /\ ~closing.on
                      THEN [on |-> TRUE, waited |-> 0] ELSE closing
    /\ result' = [op |-> "unsubscribe", err |-> "none"]
    /\ UNCHANGED <<response, stop, sub_id, filter, trace, ws, loop_pc,
                   loop_req, conn_first, resp_pc, nsub, loop_closed, seen>>
    /\ UNCHANGED <<apply_vars, event_vars, pure_vars>>

\* push_event(evnt, prvkey) as a function of the queue: [err, request]
PushEvent(e, k, q) ==
    IF ~EventHasContains THEN [err |-> "TypeError", request |-> q]
    ELSE IF e.sig = None
         THEN LET sg == Sign(e, k) IN
              IF sg.exc # "" THEN [err |-> sg.exc, request |-> q]
              ELSE [err |-> "none", request |-> Append(q, EventReq(sg.ev))]
         ELSE [err |-> "none", request |-> Append(q, EventReq(e))]

\* the events the caller publishes: unsigned, and already signed by key 1
CallerEvents ==
    LET u == Event(None, Some(1), Some(1), <<>>, Some("a")) IN
    { u, Sign(u, 1).ev }

push_event(e, k) ==
    /\ Len(request) < MaxRequest
    /\ LET r == PushEvent(e, k, request) IN
        /\ request' = r.request
        /\ result' = [op |-> "push_event", err |-> r.err]
    /\ UNCHANGED <<response, stop, sub_id, filter, trace, ws, loop_pc,
                   loop_req, conn_first, resp_pc, nsub>>
    /\ UNCHANGED history_vars
    /\ UNCHANGED <<apply_vars, event_vars, pure_vars>>

\* send_event(cnf, **kw): Event(**params), then push_event
send_event(content, k) ==
    /\ Len(request) < MaxRequest
    /\ LET r == PushEvent(Event(None, Some(1), Some(1), <<>>, Some(content)),
                          k, request) IN
        /\ request' = r.request
        /\ result' = [op |-> "send_event", err |-> r.err]
    /\ UNCHANGED <<response, stop, sub_id, filter, trace, ws, loop_pc,
                   loop_req, conn_first, resp_pc, nsub>>
    /\ UNCHANGED history_vars
    /\ UNCHANGED <<apply_vars, event_vars, pure_vars>>

(***************************************************************************)
(* The connection activity: BaseThread.__loop and __send_event             *)
(***************************************************************************)
\* what websockets.connect(uri) can do: connect, time out (caught), or fail
\* with an exception __loop has no handler for (OSError, InvalidHandshake)
ConnectOutcomes == {"ok", "TimeoutError", "OSError"}
\* await ws.send(...) of the REQ frame (no wait_for around it)
ReqOutcomes == {"ok", "ConnectionClosed"}
\* await asyncio.wait_for(self.__ws.send(...), timeout)
SendOutcomes == {"ok", "TimeoutError", "ConnectionClosed"}
\* await asyncio.wait_for(ws.recv(), timeout), apart from a frame
RecvFailures == {"TimeoutError", "ConnectionClosed"}

\* the exceptions __loop catches (lines 188-193)
Caught == {"AssertionError", "ConnectionClosed", "TimeoutError"}

\* where an exception raised inside the try block takes the coroutine
AfterException(exc) == IF exc \in Caught THEN "head" ELSE "raised"

\* a frame goes out on connection c: remember the first one
Sent(c, frame) ==
    IF c # 0 /\ conn_first[c] = NoFrame
    THEN [conn_first EXCEPT ![c] = frame]
    ELSE conn_first

\* `while not self.__stop.is_set()` of the outer loop, and line 195
LoopHead(s) ==
    /\ loop_pc[s] = "head"
    /\ IF stop
       THEN /\ response' = Append(response, Sentinel)
            /\ loop_pc' = [loop_pc EXCEPT ![s] = "done"]
       ELSE /\ loop_pc' = [loop_pc EXCEPT ![s] = "connect"]
            /\ UNCHANGED response
    /\ UNCHANGED <<request, stop, sub_id, filter, trace, ws, loop_req,
                   conn_first, resp_pc, nsub, result>>
    /\ UNCHANGED history_vars
    /\ UNCHANGED <<apply_vars, event_vars, pure_vars>>

\* async with websockets.connect(self.uri) as ws: self.__ws = ws
LoopConnect(s) ==
    /\ loop_pc[s] = "connect"
    /\ \E out \in ConnectOutcomes :
        IF out = "ok"
        THEN /\ ws' = s
             /\ conn_first' = [conn_first EXCEPT ![s] = NoFrame]
             /\ loop_pc' = [loop_pc EXCEPT ![s] = "req"]
             /\ UNCHANGED closing
        ELSE /\ loop_pc' = [loop_pc EXCEPT ![s] = AfterException(out)]
             /\ closing' = IF out = "TimeoutError" THEN TimedOut(closing)
                           ELSE closing
             /\ UNCHANGED <<ws, conn_first>>
    /\ UNCHANGED <<request, response, stop, sub_id, filter, trace, loop_req,
                   resp_pc, nsub, result, loop_closed,
                   seen>>
    /\ UNCHANGED <<apply_vars, event_vars, pure_vars>>

\* await ws.send(json.dumps(["REQ", self.__id, self.__filter.apply()]))
LoopReq(s) ==
    /\ loop_pc[s] = "req"
    /\ \E out \in ReqOutcomes :
        IF out = "ok"
        THEN /\ conn_first' = Sent(s, Wire("REQ", sub_id, filter.limit))
             /\ loop_pc' = [loop_pc EXCEPT ![s] = "inner"]
        ELSE /\ loop_pc' = [loop_pc EXCEPT ![s] = AfterException(out)]
             /\ UNCHANGED conn_first
    /\ UNCHANGED <<request, response, stop, sub_id, filter, trace, ws,
                   loop_req, resp_pc, nsub, result>>
    /\ UNCHANGED history_vars
    /\ UNCHANGED <<apply_vars, event_vars, pure_vars>>

\* inner `while not self.__stop.is_set()` and __send_event up to its await
LoopInner(s) ==
    /\ loop_pc[s] = "inner"
    /\ IF stop
       THEN /\ loop_pc' = [loop_pc EXCEPT ![s] = "head"]
            /\ UNCHANGED <<request, stop, loop_req, loop_closed>>
       ELSE IF request = <<>>
       THEN /\ loop_pc' = [loop_pc EXCEPT ![s] = "recv"]
            /\ UNCHANGED <<request, stop, loop_req, loop_closed>>
       ELSE /\ request' = Tail(request)
            /\ loop_req' = [loop_req EXCEPT ![s] = Head(request)]
            /\ stop' = (stop \/ Head(request).type = "CLOSE")
            /\ loop_pc' = [loop_pc EXCEPT ![s] = "send"]
            /\ loop_closed' = [loop_closed EXCEPT ![s] =
                   IF loop_closed[s] # "no" THEN "more"
                   ELSE IF Head(request).type = "CLOSE" THEN "closed"
                   ELSE "no"]
    /\ UNCHANGED <<response, sub_id, filter, trace, ws, conn_first, resp_pc,
                   nsub, result, closing, seen>>
    /\ UNCHANGED <<apply_vars, event_vars, pure_vars>>

\* the await of __send_event, then `assert await(self.__send_event())`
LoopSend(s) ==
    /\ loop_pc[s] = "send"
    /\ \E out \in SendOutcomes :
        IF out = "ok"
        THEN /\ conn_first' = Sent(ws, Wire(loop_req[s].type, loop_req[s].sid, 0))
             /\ loop_pc' = [loop_pc EXCEPT ![s] =
                    IF loop_req[s].type = "CLOSE"
                    THEN AfterException("AssertionError") ELSE "recv"]
             /\ UNCHANGED closing
        ELSE /\ loop_pc' = [loop_pc EXCEPT ![s] = AfterException(out)]
             /\ closing' = IF out = "TimeoutError" THEN TimedOut(closing)
                           ELSE closing
             /\ UNCHANGED conn_first
    /\ loop_req' = [loop_req EXCEPT ![s] = NoReq]
    /\ UNCHANGED <<request, response, stop, sub_id, filter, trace, ws,
                   resp_pc, nsub, result, loop_closed,
                   seen>>
    /\ UNCHANGED <<apply_vars, event_vars, pure_vars>>

\* self.response.put(await asyncio.wait_for(ws.recv(), timeout=self.timeout))
LoopRecv(s) ==
    /\ loop_pc[s] = "recv"
    /\ \/ \E f \in RelayFrames :
            /\ Len(response) < MaxResponse
            /\ response' = Append(response, f)
            /\ loop_pc' = [loop_pc EXCEPT ![s] = "inner"]
            /\ UNCHANGED closing
       \/ \E out \in RecvFailures :
            /\ loop_pc' = [loop_pc EXCEPT ![s] = AfterException(out)]
            /\ closing' = IF out = "TimeoutError" THEN TimedOut(closing)
                          ELSE closing
            /\ UNCHANGED response
    /\ UNCHANGED <<request, stop, sub_id, filter, trace, ws, loop_req,
                   conn_first, resp_pc, nsub, result, loop_closed,
                   seen>>
    /\ UNCHANGED <<apply_vars, event_vars, pure_vars>>

(***************************************************************************)
(* The delivery activity: BaseThread.__manage_resp                         *)
(***************************************************************************)
\* whether apply() reaches self.__trace.appendleft(_id) on frame f
Recorded(f, dq) ==
    /\ f.txt = "json" /\ f.head = "EVENT" /\ f.id # 0
    /\ ~InTrace(dq, f.id)

\* whether apply() then prints the event: every field read, content not blank
Shown(f) == f.full /\ ~f.blank

\* the history of recorded events, kept to the MaxSeen newest
Seen(f, dq, h) ==
    IF Recorded(f, dq)
    THEN LET n == <<[id |-> f.id, shown |-> Shown(f)]>> \o h IN
         SubSeq(n, 1, IF Len(n) > MaxSeen THEN MaxSeen ELSE Len(n))
    ELSE h

\* one turn of the loop on frame f: [pc, trace]
ManageRespStep(f, dq, maxlen) ==
    IF f.txt = "STOP" THEN [pc |-> "done", trace |-> dq]
    ELSE LET j == JsonLoads(f) IN
         IF ~j.ok THEN [pc |-> "raised", trace |-> dq]
         ELSE LET a == Apply(j.data, dq, maxlen) IN
              [pc |-> IF a.raised THEN "raised" ELSE "run", trace |-> a.trace]

manage_resp ==
    /\ resp_pc = "run"
    /\ response # <<>>
    /\ LET r == ManageRespStep(Head(response), trace, filter.limit) IN
        /\ resp_pc' = r.pc
        /\ trace' = r.trace
        /\ closing' = IF r.pc = "run" THEN closing ELSE NotClosing
        /\ seen' = Seen(Head(response), trace, seen)
    /\ response' = Tail(response)
    /\ UNCHANGED <<request, stop, sub_id, filter, ws, loop_pc, loop_req,
                   conn_first, nsub, result, loop_closed>>
    /\ UNCHANGED <<apply_vars, event_vars, pure_vars>>

(***************************************************************************)
(* The relay session client                                                *)
(***************************************************************************)
ApplyIdle == arrived = <<>> /\ rendered = 0
NoOut == [op |-> "none", exc |-> "", ret |-> FALSE]
NoCall == [plain |-> "", from |-> 0, to |-> <<>>, by |-> 0, difficulty |-> 0,
           x |-> ""]
EventIdle == /\ ev = NoEvent /\ ev_out = NoOut /\ ev_base = None /\ ev_n = 0
             /\ ev_call = NoCall
NoB32 == [prefix |-> "", hexa |-> <<>>, text |-> None, out |-> None, exc |-> ""]
NoFlt == [cnf |-> None, dict |-> None, out |-> None]
PureIdle == b32 = NoB32 /\ flt = NoFlt
HistoryIdle == /\ closing = NotClosing
               /\ loop_closed = [s \in Sessions |-> "no"]
               /\ seen = <<>>

\* BaseThread.__init__
Init ==
    /\ request = <<>>
    /\ response = <<>>
    /\ stop = FALSE
    /\ sub_id = 0
    /\ filter = Filter([kinds |-> 1])
    /\ trace = <<>>
    /\ ws = 0
    /\ loop_pc = [s \in Sessions |-> "idle"]
    /\ loop_req = [s \in Sessions |-> NoReq]
    /\ conn_first = [s \in Sessions |-> NoFrame]
    /\ resp_pc = "none"
    /\ nsub = 0
    /\ result = [op |-> "none", err |-> "none"]
    /\ HistoryIdle
    /\ ApplyIdle
    /\ EventIdle
    /\ PureIdle

Caller ==
    \/ \E cnf \in FilterArgs : subscribe(cnf)
    \/ unsubscribe
    \/ \E e \in CallerEvents, k \in {1} : push_event(e, k)
    \/ \E k \in {1} : send_event("a", k)

Connection(s) ==
    \/ LoopHead(s)
    \/ LoopConnect(s)
    \/ LoopReq(s)
    \/ LoopInner(s)
    \/ LoopSend(s)
    \/ LoopRecv(s)

Next ==
    \/ Caller
    \/ \E s \in Sessions : Connection(s)
    \/ manage_resp

Background == (\E s \in Sessions : Connection(s)) \/ manage_resp

Spec == Init /\ [][Next]_vars

\* the event loop runs every ready coroutine and the thread scheduler every
\* runnable thread
FairSpec ==
    /\ Spec
    /\ \A s \in Sessions : WF_vars(Connection(s))
    /\ WF_vars(manage_resp)

(***************************************************************************)
(* SpecApply: apply() on a stream of EVENT frames, after one subscribe()   *)
(***************************************************************************)
MaxFrames   == 7      \* EVENT frames handed to apply()
MaxApplyIds == 6      \* distinct event ids among them

\* the filters of the scenario: limit 5, and a smaller one
ApplyFilterArgs == { [kinds |-> 1, limit |-> 5], [kinds |-> 1, limit |-> 2] }

ClientIdle ==
    /\ request = <<>> /\ response = <<>> /\ stop = FALSE /\ ws = 0
    /\ loop_req = [s \in Sessions |-> NoReq]
    /\ conn_first = [s \in Sessions |-> NoFrame]
    /\ result = [op |-> "none", err |-> "none"]
    /\ HistoryIdle

\* the state subscribe(cnf) leaves, the connection activity set aside
InitApply ==
    /\ ClientIdle
    /\ \E cnf \in ApplyFilterArgs : filter = Filter(cnf)
    /\ sub_id = 1 /\ nsub = 1 /\ trace = <<>>
    /\ resp_pc = "run"
    /\ loop_pc = [s \in Sessions |-> IF s = 1 THEN "recv" ELSE "idle"]
    /\ arrived = <<>> /\ rendered = 0
    /\ EventIdle
    /\ PureIdle

SeenIds(seq) == { seq[i].id : i \in 1..Len(seq) }

\* __manage_resp takes ["EVENT", sub, event] with id i from the queue.  Ids
\* are compared for equality only, so a new id is taken as the next number.
apply_event(i, blank) ==
    /\ resp_pc = "run"
    /\ Len(arrived) < MaxFrames
    /\ i \in SeenIds(arrived) \/ i = Cardinality(SeenIds(arrived)) + 1
    /\ LET f == EventFrame(i, blank)
           r == ManageRespStep(f, trace, filter.limit)
           a == Apply(JsonLoads(f).data, trace, filter.limit)
       IN  /\ resp_pc' = r.pc
           /\ trace' = r.trace
           /\ rendered' = IF a.shown THEN rendered + 1 ELSE rendered
           /\ arrived' = Append(arrived, [id |-> i, blank |-> blank])
    /\ UNCHANGED <<request, response, stop, sub_id, filter, ws, loop_pc,
                   loop_req, conn_first, nsub, result>>
    /\ UNCHANGED <<event_vars, pure_vars, history_vars>>

NextApply == \E i \in 1..MaxApplyIds, blank \in BOOLEAN : apply_event(i, blank)

SpecApply == InitApply /\ [][NextApply]_vars

\* the frames so far hold each id once, but for one id that occurs twice,
\* and every event has text to print
OneDuplicate ==
    /\ Len(arrived) >= 2
    /\ Cardinality(SeenIds(arrived)) = Len(arrived) - 1
    /\ \A i \in 1..Len(arrived) : ~arrived[i].blank

\* number of frames between the two occurrences of the repeated id
DupGap ==
    LET p == CHOOSE p \in (1..Len(arrived)) \X (1..Len(arrived)) :
                 p[1] < p[2] /\ arrived[p[1]].id = arrived[p[2]].id
    IN  p[2] - p[1] - 1

\* C3 (as claimed): limit 5, 7 EVENT frames carrying 6 distinct ids: exactly
\* 6 events are rendered, wherever the two occurrences of the repeated id fall.
C3_SixRenderedAnyOrder ==
    (OneDuplicate /\ Len(arrived) = 7 /\ filter.limit = 5) => rendered = 6

\* C3 (amended): with one id occurring twice among n EVENT frames that have
\* text to print, the second occurrence is suppressed exactly when fewer than
\* `limit` frames lie between the two: n - 1 events are rendered then, and
\* all n otherwise (limit 5, 7 frames: 6, but 7 when the repeated id is the
\* first and the last frame).
C3_DuplicateSuppressedWithinWindow ==
    OneDuplicate =>
        rendered = IF DupGap < filter.limit THEN Len(arrived) - 1
                   ELSE Len(arrived)

\* limit 5, 7 frames, 6 ids, the duplicate inside the window: 6 rendered
C3_Witness ==
    /\ OneDuplicate /\ Len(arrived) = 7 /\ filter.limit = 5
    /\ DupGap < 5 /\ rendered = 6

(***************************************************************************)
(* SpecEvent: one Event under attribute assignment, identify, sign, verify *)
(***************************************************************************)
MaxAssign == 2        \* attribute assignments made to the event

ClientInit ==
    /\ ClientIdle
    /\ filter = Filter([kinds |-> 1])
    /\ sub_id = 0 /\ nsub = 0 /\ trace = <<>>
    /\ resp_pc = "none"
    /\ loop_pc = [s \in Sessions |-> "idle"]

\* the five fields serialize() reads
Fields(e) == <<e.pubkey, e.created_at, e.kind, e.tags, e.content>>

\* the values an attribute is given, at construction or by assignment
AttrValues(name) ==
    CASE name = "pubkey"     -> {None} \cup { Some(PubKeyOf(k)) : k \in Keys }
      [] name = "created_at" -> {None, Some(1), Some(2)}
      [] name = "kind"       -> {None, Some(1), Some(4)}
      [] name = "tags"       -> { <<>>, << <<"e", "x">> >>, << <<>> >> }
      [] name = "content"    -> {None, Some("a"), Some("b")}

HashedAttrs == {"pubkey", "created_at", "kind", "tags", "content"}

\* Event(cnf): created_at is the clock unless given; id and sig stay None
InitEvent ==
    /\ ClientInit
    /\ ApplyIdle
    /\ PureIdle
    /\ \E p \in {None, Some(PubKeyOf(1))}, k \in {None, Some(1)},
          t \in {<<>>, << <<>> >>}, c \in {None, Some("a")} :
          ev = Event(p, Some(1), k, t, c)
    /\ ev_out = NoOut
    /\ ev_base = None
    /\ ev_n = 0
    /\ ev_call = NoCall

\* evnt.<name> = v
assign(name, v) ==
    /\ ev_n < MaxAssign
    /\ ev' = [ev EXCEPT ![name] = v]
    /\ ev_n' = ev_n + 1
    /\ ev_out' = [op |-> "assign", exc |-> "", ret |-> FALSE]
    /\ UNCHANGED ev_base
    /\ UNCHANGED <<client_vars, apply_vars, pure_vars, ev_call>>

\* evnt.id = v, as load() does with an id taken from a relay: the id of the
\* event as it stands, or of the event with another content
assign_id(c) ==
    /\ ev_n < MaxAssign
    /\ LET s == Serialize([ev EXCEPT !.content = c]) IN
        /\ s.exc = ""
        /\ ev' = [ev EXCEPT !.id = Some(Sha256(s.bytes))]
    /\ ev_n' = ev_n + 1
    /\ ev_out' = [op |-> "assign", exc |-> "", ret |-> FALSE]
    /\ ev_base' = None
    /\ UNCHANGED <<client_vars, apply_vars, pure_vars, ev_call>>

\* evnt.serialize(): the bytes returned are kept in ev_out.ret
serialize ==
    /\ LET r == Serialize(ev) IN
        ev_out' = [op |-> "serialize", exc |-> r.exc, ret |-> r.bytes]
    /\ UNCHANGED <<ev, ev_base, ev_n>>
    /\ UNCHANGED <<client_vars, apply_vars, pure_vars, ev_call>>

identify ==
    /\ LET r == Identify(ev) IN
        /\ ev' = r.ev
        /\ ev_out' = [op |-> "identify", exc |-> r.exc, ret |-> FALSE]
        /\ ev_base' = IF r.exc = "" THEN Some(Fields(r.ev)) ELSE ev_base
    /\ UNCHANGED ev_n
    /\ UNCHANGED <<client_vars, apply_vars, pure_vars, ev_call>>

sign(k) ==
    /\ LET r == Sign(ev, k) IN
        /\ ev' = r.ev
        /\ ev_out' = [op |-> "sign", exc |-> r.exc, ret |-> FALSE]
        /\ ev_base' = IF r.exc = "" THEN Some(Fields(r.ev)) ELSE ev_base
    /\ UNCHANGED ev_n
    /\ UNCHANGED <<client_vars, apply_vars, pure_vars, ev_call>>

verify ==
    /\ LET r == Verify(ev) IN
        ev_out' = [op |-> "verify", exc |-> r.exc, ret |-> r.ret]
    /\ UNCHANGED <<ev, ev_base, ev_n>>
    /\ UNCHANGED <<client_vars, apply_vars, pure_vars, ev_call>>

NextEvent ==
    \/ \E name \in HashedAttrs : \E v \in AttrValues(name) : assign(name, v)
    \/ \E c \in AttrValues("content") : assign_id(c)
    \/ serialize
    \/ identify
    \/ \E k \in Keys : sign(k)
    \/ verify

SpecEvent == InitEvent /\ [][NextEvent]_vars

WellFormed(e) == Serialize(e).exc = ""

\* C7: verify() raises IntegrityError exactly when the stored id differs
\* from sha256(serialize()) of the current fields; it does not raise it
\* while the five fields are as identify() or sign() last saw them, and
\* raises it on every call while one of them differs from that.
C7_IntegrityErrorIffIdStale ==
    /\ (ev_out.op = "verify" /\ WellFormed(ev)) =>
          (ev_out.exc = "IntegrityError"
              <=> ev.id # Some(Sha256(Serialize(ev).bytes)))
    /\ (ev_out.op \in {"identify", "sign"} /\ ev_out.exc = "") =>
          Verify(ev).exc = ""
    /\ (ev_base # None /\ WellFormed(ev)) =>
          (Verify(ev).exc = "IntegrityError" <=> Fields(ev) # ev_base[1])

\* verify() has just raised IntegrityError on an event that was identified
\* and then had one of the five fields changed
C7_Witness ==
    /\ ev_out.op = "verify" /\ ev_out.exc = "IntegrityError"
    /\ ev_base # None /\ WellFormed(ev) /\ Fields(ev) # ev_base[1]

\* what serialize() is to raise on the event, "" when it is to return
SerializeError(e) ==
    IF e.pubkey = None \/ e.created_at = None \/ e.kind = None \/ e.content = None
    THEN "EmptyEventException"
    ELSE IF \E i \in 1..Len(e.tags) : e.tags[i] = <<>>
    THEN "EmptyTagException"
    ELSE ""

\* C13: serialize() raises EmptyEventException if pubkey, created_at, kind
\* or content is None, EmptyTagException if the four are set and some tag is
\* empty, and otherwise returns the array [0, pubkey, created_at, kind, tags,
\* content]; identify() raises the same; a serialize() or identify() that
\* raises leaves every field of the event, id included, as it was.
C13_SerializeErrorsAndBytes ==
    [][(ev_out'.op \in {"serialize", "identify"}) =>
          /\ ev_out'.exc = SerializeError(ev)
          /\ (ev_out'.op = "serialize" /\ ev_out'.exc = "") =>
                ev_out'.ret = <<0, ev.pubkey[1], ev.created_at[1], ev.kind[1],
                                ev.tags, ev.content[1]>>
          /\ (ev_out'.exc # "") => ev' = ev
          /\ (ev_out'.op = "serialize") => ev' = ev]_vars

\* identify() has just raised EmptyTagException on an event that holds an
\* id from before, and the id is still there
C13_Witness ==
    /\ ev_out.op = "identify" /\ ev_out.exc = "EmptyTagException"
    /\ ev.id # None

SignedBy(e, k) == e.sig # None /\ e.sig[1].key = k

\* C8 (as claimed): verify() is True after sign(K); False, without raising,
\* for an identified event with sig None; and False for an event signed with
\* K whose pubkey is not the one of K.
C8_VerifyTrueFalse ==
    /\ (ev_out.op = "sign" /\ ev_out.exc = "") =>
          Verify(ev) = [exc |-> "", ret |-> TRUE]
    /\ (ev_out.op = "identify" /\ ev_out.exc = "" /\ ev.sig = None) =>
          Verify(ev) = [exc |-> "", ret |-> FALSE]
    /\ \A k \in Keys :
          (SignedBy(ev, k) /\ WellFormed(ev) /\ ev.pubkey # Some(PubKeyOf(k))) =>
              Verify(ev) = [exc |-> "", ret |-> FALSE]

\* C8 (amended): the same, but for an event signed with K whose pubkey is
\* then set to another key verify() raises IntegrityError as long as id is
\* the one sign(K) left, and returns False once identify() has recomputed id.
C8_VerifyTrueFalseOrIntegrity ==
    /\ (ev_out.op = "sign" /\ ev_out.exc = "") =>
          Verify(ev) = [exc |-> "", ret |-> TRUE]
    /\ (ev_out.op = "identify" /\ ev_out.exc = "" /\ ev.sig = None) =>
          Verify(ev) = [exc |-> "", ret |-> FALSE]
    /\ \A k \in Keys :
          (SignedBy(ev, k) /\ WellFormed(ev) /\ ev.pubkey # Some(PubKeyOf(k))) =>
              /\ ~Verify(ev).ret
              /\ ev.id = Some(ev.sig[1].msg) => Verify(ev).exc = "IntegrityError"
              /\ (ev_out.op = "identify" /\ ev_out.exc = "") =>
                    Verify(ev) = [exc |-> "", ret |-> FALSE]

\* signed with one key, pubkey set to another, id recomputed, verify() False
C8_Witness ==
    /\ ev_out.op = "verify" /\ ev_out.exc = "" /\ ev_out.ret = FALSE
    /\ \E k \in Keys : SignedBy(ev, k) /\ ev.pubkey # Some(PubKeyOf(k))
    /\ WellFormed(ev)

(***************************************************************************)
(* Encryption primitives (pynostr/__init__.py, pyaes, base64)              *)
(***************************************************************************)
\* a byte string used as a key: a shared secret, a digest, or anything else
Bytes(kind, lo, hi, of) == [kind |-> kind, lo |-> lo, hi |-> hi, of |-> of]
OtherBytes == Bytes("other", 0, 0, "")

\* PrvKey.shared_secret(pubkey): x of pubkey * prvkey, the same for both ends
SharedSecret(k, pubkey) ==
    LET j == KeyOfPub(pubkey) IN
    Bytes("ecdh", IF k < j THEN k ELSE j, IF k < j THEN j ELSE k, "")

\* hashlib.sha256(content.encode("utf-8")).digest()
Sha256Digest(content) == Bytes("sha256", 0, 0, content)

\* pyaes.AESModeOfOperationCTR(key).encrypt(data) / .decrypt(data)
CtrEncrypt(key, data) == [key |-> key, data |-> data]
CtrDecrypt(key, ct) == IF ct.key = key THEN ct.data ELSE OtherBytes

\* _encrypt(msg, secret, iv) and _decrytp(cipher, secret, iv): AES-CBC with
\* padding; the wrong key or iv gives an exception or other bytes
CbcEncrypt(msg, secret, iv) == [key |-> secret, iv |-> iv, plain |-> msg]
CbcDecrypt(cipher, secret, iv) ==
    IF secret.kind # "other" /\ cipher.key = secret /\ cipher.iv = iv
    THEN [ok |-> TRUE, text |-> cipher.plain]
    ELSE [ok |-> FALSE, text |-> ""]

\* A str in fourth place of a tag: its characters, or (enc) the bytes it is
\* the base64.b64encode of
Text(chars) == [chars |-> chars, enc |-> None]
B64Encode(ct) == [chars |-> <<>>, enc |-> Some(ct)]

B64Alphabet == {"A", "B", "T", "a", "b", "n", "o", "0", "1", "+", "/"}

\* base64.b64decode(s, validate=True): [ok, bytes]
B64Decode(s) ==
    IF s.enc # None THEN [ok |-> TRUE, bytes |-> s.enc[1]]
    ELSE IF Len(s.chars) % 4 = 0
            /\ \A i \in 1..Len(s.chars) : s.chars[i] \in B64Alphabet
    THEN [ok |-> TRUE, bytes |-> CtrEncrypt(OtherBytes, OtherBytes)]
    ELSE [ok |-> FALSE, bytes |-> CtrEncrypt(OtherBytes, OtherBytes)]

(***************************************************************************)
(* Event.encrypt and Event.decrypt (event.py)                              *)
(***************************************************************************)
\* TagList.find("p")
FindP(tags) == SelectSeq(tags, LAMBDA t : t[1] = "p")

\* TagList.add_pubkey(pubkey, url, petname)
AddPubkey(tags, pubkey, url, petname) ==
    Append(tags, IF petname = None THEN <<"p", pubkey, url>>
                 ELSE <<"p", pubkey, url, petname[1]>>)

\* the NIP-48 loop of encrypt(): one tag per recipient, in order
RECURSIVE AddRecipients(_, _, _, _)
AddRecipients(tags, k, pubkeys, secret) ==
    IF pubkeys = <<>> THEN tags
    ELSE AddRecipients(
            AddPubkey(tags, Head(pubkeys), "",
                      Some(B64Encode(CtrEncrypt(SharedSecret(k, Head(pubkeys)),
                                                secret)))),
            k, Tail(pubkeys), secret)

\* encrypt(prvkey, *pubkeys) with os.urandom(16) = iv: [exc, ev]
Encrypt(e, k, pubkeys, iv) ==
    IF Len(pubkeys) = 0 THEN [exc |-> "Exception", ev |-> e]
    ELSE
    LET multi  == Len(pubkeys) > 1
        secret == IF multi THEN Sha256Digest(e.content[1])
                  ELSE SharedSecret(k, pubkeys[1])
        tags   == IF multi THEN AddRecipients(e.tags, k, pubkeys, secret)
                  ELSE IF \E i \in 1..Len(FindP(e.tags)) :
                             FindP(e.tags)[i][2] = pubkeys[1]
                  THEN e.tags
                  ELSE AddPubkey(e.tags, pubkeys[1], "", None)
    IN  [exc |-> "",
         ev |-> [e EXCEPT !.tags = tags,
                          !.pubkey = Some(PubKeyOf(k)),
                          !.kind = Some(4),
                          !.content = Some([cipher |-> CbcEncrypt(e.content[1], secret, iv),
                                            iv |-> iv])]]

\* decrypt(prvkey) of an event whose content is cipher + "?iv=" + iv:
\* [exc, text]
Decrypt(e, k) ==
    LET pubkey == PubKeyOf(k)
        tag == SelectSeq(e.tags, LAMBDA t : t[2] = pubkey)
    IN  IF Len(tag) = 0 THEN [exc |-> "EmptyTagException", text |-> ""]
        ELSE
        LET t == tag[1]
            shared == SharedSecret(k, e.pubkey[1])
            \* tag[0][3]: IndexError or binascii.Error selects NIP-04
            secret == IF Len(t) >= 4 /\ B64Decode(t[4]).ok
                      THEN CtrDecrypt(shared, B64Decode(t[4]).bytes)
                      ELSE shared
            d == CbcDecrypt(e.content[1].cipher, secret, e.content[1].iv)
        IN  IF d.ok THEN [exc |-> "", text |-> d.text]
            ELSE [exc |-> "ValueError", text |-> ""]

(***************************************************************************)
(* SpecCrypt: encrypt() by one key, then decrypt() by another              *)
(***************************************************************************)
\* petnames: not base64, base64 of 4 characters, and the empty string
Labels == { Text(<<"b", "o", "b">>), Text(<<"T", "o", "o", "n">>), Text(<<>>) }

\* the tag lists an event carries before encrypt(), for a reader's pubkey
TagsBefore(pubkey) ==
    { <<>>, << <<"e", "x", "">> >>, << <<"p", pubkey, "">> >> }
    \cup { << <<"p", pubkey, "", l>> >> : l \in Labels }

Contents == {"hello", "h\\u00e9llo"}

InitCrypt ==
    /\ ClientInit
    /\ ApplyIdle
    /\ PureIdle
    /\ \E b \in Keys, c \in Contents : \E t \in TagsBefore(PubKeyOf(b)) :
          ev = Event(None, Some(1), Some(1), t, Some(c))
    /\ ev_out = NoOut
    /\ ev_base = None
    /\ ev_n = 0
    /\ ev_call = NoCall

Ivs == {1, 2}

\* the recipients encrypt() is called with: none, one, or two in either order
Recipients ==
    { <<>> } \cup { <<p>> : p \in PubKeys }
    \cup { <<p, q>> : p \in PubKeys, q \in PubKeys }

encrypt(k, pubkeys, iv) ==
    /\ ev_out.op = "none"
    /\ LET r == Encrypt(ev, k, pubkeys, iv) IN
        /\ ev' = r.ev
        /\ ev_out' = [op |-> "encrypt", exc |-> r.exc, ret |-> FALSE]
        /\ ev_call' = [NoCall EXCEPT !.plain = ev.content[1], !.from = k,
                                     !.to = pubkeys]
    /\ UNCHANGED <<ev_base, ev_n>>
    /\ UNCHANGED <<client_vars, apply_vars, pure_vars>>

decrypt(k) ==
    /\ ev_out.op = "encrypt" /\ ev_out.exc = ""
    /\ LET r == Decrypt(ev, k) IN
        /\ ev_out' = [op |-> "decrypt", exc |-> r.exc, ret |-> r.text]
        /\ ev_call' = [ev_call EXCEPT !.by = k]
    /\ UNCHANGED <<ev, ev_base, ev_n>>
    /\ UNCHANGED <<client_vars, apply_vars, pure_vars>>

NextCrypt ==
    \/ \E k \in Keys, to \in Recipients, iv \in Ivs : encrypt(k, to, iv)
    \/ \E k \in Keys : decrypt(k)

SpecCrypt == InitCrypt /\ [][NextCrypt]_vars

IsRecipient(k) == \E i \in 1..Len(ev_call.to) : ev_call.to[i] = PubKeyOf(k)

\* C9: whatever tags the event carried before encrypt(A, pubkey of B, ...),
\* decrypt(B) returns the content it had before encryption.
C9_DecryptRecoversContent ==
    (ev_out.op = "decrypt" /\ IsRecipient(ev_call.by)) =>
        (ev_out.exc = "" /\ ev_out.ret = ev_call.plain)

(***************************************************************************)
(* Event.set_pow_tag (event.py)                                            *)
(***************************************************************************)
HashBits == 4         \* width of the hash read as an integer (256 in the code)

RECURSIVE Pow2(_)
Pow2(n) == IF n = 0 THEN 1 ELSE 2 * Pow2(n - 1)

\* a & b on non-negative integers
RECURSIVE BitAnd(_, _)
BitAnd(a, b) ==
    IF a = 0 \/ b = 0 THEN 0
    ELSE (a % 2) * (b % 2) + 2 * BitAnd(a \div 2, b \div 2)

\* the strings of the model; "%s" % n is DecStr[n + 1]
DecStr == <<"0", "1", "2", "3", "4", "5", "6", "7", "8", "9", "10", "11", "12", "13", "14", "15", "16", "17", "18", "19", "20", "21", "22", "23", "24", "25", "26", "27", "28", "29", "30", "31", "32", "33", "34", "35", "36", "37", "38", "39", "40">>
OtherStr == <<"null", "P1", "P2", "P3", "P4", "P5", "hello", "50%%", "50%",
              "nonce", "%s", "e", "x", "", "npub", "nsec", "note">>
StrCode(s) ==
    IF \E i \in 1..Len(DecStr) : DecStr[i] = s
    THEN CHOOSE i \in 1..Len(DecStr) : DecStr[i] = s
    ELSE Len(DecStr) + (CHOOSE i \in 1..Len(OtherStr) : OtherStr[i] = s)

\* "%s" % n
Str(n) == DecStr[n + 1]

RECURSIVE SeqSum(_)
SeqSum(q) == IF q = <<>> THEN 0 ELSE Head(q) + SeqSum(Tail(q))

TagCode(t) == SeqSum([i \in 1..Len(t) |-> (2 * i - 1) * StrCode(t[i])])
TagsCode(tags) == SeqSum([i \in 1..Len(tags) |-> TagCode(tags[i])])

\* int(hashlib.sha256(bytes).hexdigest(), base=16), on HashBits bits: a
\* function of every byte of the serialization, each nonce giving another value
HashInt(h) ==
    LET b == h.sha256 IN
    (7 * StrCode(b[2]) + 3 * b[3] + 5 * b[4] + TagsCode(b[5])
       + 11 * StrCode(b[6])) % Pow2(HashBits)

\* json.dumps([0, pubkey, created_at, kind, tags, content]): None is null
JsonDumps(e, tags) ==
    <<0, IF e.pubkey = None THEN "null" ELSE e.pubkey[1],
         IF e.created_at = None THEN 0 ELSE e.created_at[1],
         IF e.kind = None THEN 0 ELSE e.kind[1],
         tags,
         IF e.content = None THEN "null" ELSE e.content[1]>>

\* s % nonce on one string of the text: "%s" takes the argument, "%%" is "%"
FormatStr(s, nonce) ==
    IF s = "%s" THEN Str(nonce) ELSE IF s = "50%%" THEN "50%" ELSE s

\* serial % nonce
Format(serial, nonce) ==
    <<0, FormatStr(serial[2], nonce), serial[3], serial[4],
         [i \in 1..Len(serial[5]) |->
             [j \in 1..Len(serial[5][i]) |-> FormatStr(serial[5][i][j], nonce)]],
         FormatStr(serial[6], nonce)>>

\* int("1" * difficulty, base=2) << (256 - difficulty): [exc, mask]
Mask(difficulty) ==
    IF difficulty <= 0 THEN [exc |-> "ValueError", mask |-> 0]      \* int("", 2)
    ELSE IF difficulty > HashBits THEN [exc |-> "ValueError", mask |-> 0]
    ELSE [exc |-> "", mask |-> (Pow2(difficulty) - 1) * Pow2(HashBits - difficulty)]

\* the while loop: the first nonce, from `nonce` on, whose hash clears mask
RECURSIVE Search(_, _, _)
Search(serial, mask, nonce) ==
    IF BitAnd(HashInt(Sha256(Format(serial, nonce))), mask) # 0
    THEN Search(serial, mask, nonce + 1)
    ELSE nonce

\* set_pow_tag(difficulty): [exc, ev]
SetPowTag(e, difficulty) ==
    IF e.pubkey = None THEN [exc |-> "OrphanEvent", ev |-> e]
    ELSE
    LET m == Mask(difficulty) IN
    IF m.exc # "" THEN [exc |-> m.exc, ev |-> e]
    ELSE
    LET serial == JsonDumps(e, Append(e.tags, <<"nonce", "%s", Str(difficulty)>>))
        nonce  == Search(serial, m.mask, 0)
        e1     == [e EXCEPT !.tags = Append(e.tags,
                                <<"nonce", Str(nonce), Str(difficulty)>>)]
    IN  Identify(e1)

(***************************************************************************)
(* SpecPow: set_pow_tag on a fresh event                                   *)
(***************************************************************************)
MaxPowCalls == 2      \* set_pow_tag calls on one event

InitPow ==
    /\ ClientInit
    /\ ApplyIdle
    /\ PureIdle
    /\ \E p \in {None, Some(PubKeyOf(1)), Some(PubKeyOf(2))},
          t \in {1, 2}, k \in {Some(1), Some(4)},
          c \in {Some("hello"), Some("50%%")},
          g \in {<<>>, << <<"e", "x">> >>} :
          ev = Event(p, Some(t), k, g, c)
    /\ ev_out = NoOut
    /\ ev_base = None
    /\ ev_n = 0
    /\ ev_call = NoCall

set_pow_tag(difficulty) ==
    /\ ev_n < MaxPowCalls
    /\ LET r == SetPowTag(ev, difficulty) IN
        /\ ev' = r.ev
        /\ ev_out' = [op |-> "set_pow_tag", exc |-> r.exc, ret |-> FALSE]
    /\ ev_call' = [NoCall EXCEPT !.difficulty = difficulty]
    /\ ev_n' = ev_n + 1
    /\ UNCHANGED ev_base
    /\ UNCHANGED <<client_vars, apply_vars, pure_vars>>

NextPow == \E d \in 0..HashBits : set_pow_tag(d)

SpecPow == InitPow /\ [][NextPow]_vars

\* the top d bits of id are zero
TopBitsZero(id, d) ==
    d = 0 \/ BitAnd(HashInt(id), Mask(d).mask) = 0

\* C10: for every event with pubkey set and every difficulty d >= 0,
\* set_pow_tag(d) returns with a trailing ["nonce", n, d] tag, id the hash of
\* the serialization with that tag, the top d bits of id zero and n the least
\* such nonce; for d = 0 it returns with n = 0 and without error.
C10_PowTagMined ==
    (ev_out.op = "set_pow_tag" /\ ev.pubkey # None) =>
        LET d == ev_call.difficulty
            last == ev.tags[Len(ev.tags)]
        IN  /\ ev_out.exc = ""
            /\ Len(ev.tags) >= 1
            /\ last[1] = "nonce" /\ last[3] = Str(d)
            /\ ev.id = Some(Sha256(Serialize(ev).bytes))
            /\ TopBitsZero(ev.id[1], d)
            /\ d = 0 => last[2] = Str(0)
            /\ \A m \in 0..Pow2(HashBits) :
                  Str(m) = last[2] =>
                     \A l \in 0..(m - 1) :
                        ~TopBitsZero(
                            Sha256(Serialize([ev EXCEPT !.tags[Len(ev.tags)][2] = Str(l)]).bytes),
                            d)

(***************************************************************************)
(* to_bech32 / from_bech32 (__init__.py) over the bech32 codec             *)
(***************************************************************************)
MaxBytes == 6         \* length of the byte strings encoded

\* the inner `while bits >= tobits` of convertbits: [bits, ret]
RECURSIVE Regroup(_, _, _, _)
Regroup(acc, bits, tobits, ret) ==
    IF bits >= tobits
    THEN Regroup(acc, bits - tobits, tobits,
                 Append(ret, (acc \div Pow2(bits - tobits)) % Pow2(tobits)))
    ELSE [bits |-> bits, ret |-> ret]

\* the `for value in data` of convertbits, from item i on
RECURSIVE ConvertFrom(_, _, _, _, _, _, _)
ConvertFrom(data, i, acc, bits, ret, frombits, tobits) ==
    IF i > Len(data)
    THEN IF bits > 0                  \* pad: the bits left over, zero-filled
         THEN Append(ret, (acc * Pow2(tobits - bits)) % Pow2(tobits))
         ELSE ret
    ELSE LET a == (acc * Pow2(frombits) + data[i]) % Pow2(frombits + tobits - 1)
             r == Regroup(a, bits + frombits, tobits, ret)
         IN  ConvertFrom(data, i + 1, a, r.bits, r.ret, frombits, tobits)

\* bech32.convertbits(data, frombits, tobits), padding as by default:
\* most significant bit first, a last group zero-padded when bits are left
ConvertBits(data, frombits, tobits) ==
    ConvertFrom(data, 1, 0, 0, <<>>, frombits, tobits)

\* the six checksum symbols, a function of the prefix and of every group
RECURSIVE Polymod(_, _, _)
Polymod(values, i, chk) ==
    IF i > Len(values) THEN chk
    ELSE Polymod(values, i + 1, (chk * 33 + values[i] + 1) % Pow2(20))

Bech32Checksum(hrp, data) == Polymod(data, 1, StrCode(hrp))

\* bech32.bech32_encode(hrp, data, spec): hrp + "1" + data + checksum
Bech32Encode(hrp, data) ==
    [hrp |-> hrp, data |-> data, chk |-> Bech32Checksum(hrp, data)]

\* bech32.bech32_decode(bech): [hrp, data, ok], ok only with a good checksum
Bech32Decode(bech) ==
    IF bech.chk = Bech32Checksum(bech.hrp, bech.data)
    THEN [hrp |-> bech.hrp, data |-> bech.data, ok |-> TRUE]
    ELSE [hrp |-> "", data |-> <<>>, ok |-> FALSE]

\* to_bech32(prefix, hexa): hexa is taken as its bytes (bytes.fromhex)
ToBech32(prefix, hexa) == Bech32Encode(prefix, ConvertBits(hexa, 8, 5))

\* bytearray(...)[:-1]
DropLast(q) == IF q = <<>> THEN <<>> ELSE SubSeq(q, 1, Len(q) - 1)

\* from_bech32(b32): [exc, hexa] (the bytes that .hex() writes out)
FromBech32(text) ==
    LET d == Bech32Decode(text) IN
    IF d.ok THEN [exc |-> "", hexa |-> DropLast(ConvertBits(d.data, 5, 8))]
    ELSE [exc |-> "Bech32DecodeError", hexa |-> <<>>]

(***************************************************************************)
(* SpecBech32: to_bech32 then from_bech32                                  *)
(***************************************************************************)
Prefixes == {"npub", "nsec", "note"}
ByteValues == {0, 255}

RECURSIVE ByteStrings(_)
ByteStrings(n) ==
    IF n = 0 THEN { <<>> }
    ELSE { Append(q, b) : q \in ByteStrings(n - 1), b \in ByteValues }

InitBech32 ==
    /\ ClientInit
    /\ ApplyIdle
    /\ EventIdle
    /\ flt = NoFlt
    /\ \E prefix \in Prefixes, n \in 1..MaxBytes :
         \E hexa \in ByteStrings(n) :
            b32 = [NoB32 EXCEPT !.prefix = prefix, !.hexa = hexa]

to_bech32 ==
    /\ b32.text = None
    /\ b32' = [b32 EXCEPT !.text = Some(ToBech32(b32.prefix, b32.hexa))]
    /\ UNCHANGED <<client_vars, apply_vars, event_vars, flt>>

from_bech32 ==
    /\ b32.text # None
    /\ b32.out = None /\ b32.exc = ""
    /\ LET r == FromBech32(b32.text[1]) IN
         b32' = [b32 EXCEPT !.exc = r.exc,
                            !.out = IF r.exc = "" THEN Some(r.hexa) ELSE None]
    /\ UNCHANGED <<client_vars, apply_vars, event_vars, flt>>

NextBech32 ==
    \/ to_bech32
    \/ from_bech32

SpecBech32 == InitBech32 /\ [][NextBech32]_vars

\* C11: from_bech32(to_bech32(prefix, hex)) returns hex, for every byte
\* string and each of the prefixes npub, nsec, note: the byte from_bech32
\* strips is a padding byte, never a byte of the input.
C11_Bech32RoundTrip ==
    (b32.text # None /\ (b32.out # None \/ b32.exc # "")) =>
        /\ b32.exc = ""
        /\ b32.out = Some(b32.hexa)

(***************************************************************************)
(* TagList (event.py) and SpecTags: add_tag then reference                 *)
(***************************************************************************)
MaxTags == 3          \* tags added to the list

\* add_tag(key, *values): [key] + ["%s" % v for v in values] is appended
AddTag(tags, key, values) == Append(tags, <<key>> \o values)

\* list.index(tag), from 0
Index(tags, tag) ==
    (CHOOSE j \in 1..Len(tags) :
        tags[j] = tag /\ \A k \in 1..(j - 1) : tags[k] # tag) - 1

\* the `for tag in self` of reference, from tag i on: [exc, ret]
RECURSIVE ReferenceFrom(_, _, _)
ReferenceFrom(tags, i, x) ==
    IF i > Len(tags) THEN [exc |-> "", ret |-> -1]
    ELSE IF Len(tags[i]) < 2              \* tag[1] on a tag of one item
    THEN [exc |-> "IndexError", ret |-> -1]
    ELSE IF tags[i][2] = x THEN [exc |-> "", ret |-> Index(tags, tags[i])]
    ELSE ReferenceFrom(tags, i + 1, x)

\* reference(puk_or_evnt)
Reference(tags, x) == ReferenceFrom(tags, 1, x)

TagKeys == {"e", "p"}
TagValues == { <<>>, <<"a">>, <<"b">>, <<"a", "r">> }
TagRefs == {"a", "b"}

InitTags ==
    /\ ClientInit
    /\ ApplyIdle
    /\ PureIdle
    /\ EventIdle

add_tag(key, values) ==
    /\ Len(ev.tags) < MaxTags
    /\ ev' = [ev EXCEPT !.tags = AddTag(ev.tags, key, values)]
    /\ ev_out' = [op |-> "add_tag", exc |-> "", ret |-> -1]
    /\ ev_call' = NoCall
    /\ UNCHANGED <<ev_base, ev_n>>
    /\ UNCHANGED <<client_vars, apply_vars, pure_vars>>

reference(x) ==
    /\ LET r == Reference(ev.tags, x) IN
        ev_out' = [op |-> "reference", exc |-> r.exc, ret |-> r.ret]
    /\ ev_call' = [NoCall EXCEPT !.x = x]
    /\ UNCHANGED <<ev, ev_base, ev_n>>
    /\ UNCHANGED <<client_vars, apply_vars, pure_vars>>

NextTags ==
    \/ \E key \in TagKeys, values \in TagValues : add_tag(key, values)
    \/ \E x \in TagRefs : reference(x)

SpecTags == InitTags /\ [][NextTags]_vars

\* the indices (from 0) of the tags whose second element is x
Matches(tags, x) ==
    { i - 1 : i \in { j \in 1..Len(tags) : Len(tags[j]) >= 2 /\ tags[j][2] = x } }

\* C14: reference(x) returns the smallest index of a tag whose second
\* element is x, and -1 when there is none, for every list of non-empty
\* tags, tags made of a key alone included.
C14_ReferenceFirstIndex ==
    (ev_out.op = "reference") =>
        /\ ev_out.exc = ""
        /\ LET m == Matches(ev.tags, ev_call.x) IN
           ev_out.ret = IF m = {} THEN -1
                        ELSE CHOOSE i \in m : \A j \in m : i <= j

(***************************************************************************)
(* Filter (filter.py) and SpecFilter: Filter(cnf) then apply()             *)
(***************************************************************************)
\* the keys of a Filter's __dict__, in two kinds
ListFields   == {"ids", "authors", "kinds", "#e", "#p"}
ScalarFields == {"since", "until", "limit"}
FilterFields == ListFields \cup ScalarFields

\* Filter.__init__ before load(): lists are [], since and until None,
\* limit 10 (a scalar v is kept as <<v>>, None as <<>>)
FilterNew ==
    [f \in FilterFields |->
        IF f = "limit" THEN Some(DefaultLimit) ELSE <<>>]

\* Filter.load(cnf): since, until, limit are set, the lists extended
\* (cnf gives a scalar v as <<v>>, as __dict__ keeps it here)
FilterLoad(d, cnf) ==
    [f \in FilterFields |->
        IF f \notin DOMAIN cnf THEN d[f]
        ELSE IF f \in ScalarFields THEN cnf[f]
        ELSE d[f] \o cnf[f]]

\* `if v` on the value of field f
Truthy(f, v) ==
    IF f \in ScalarFields THEN v # None /\ v[1] # 0
    ELSE v # <<>>

\* apply(): dict([k, v] for k, v in self.__dict__.items() if v)
FilterApply(d) ==
    [f \in { g \in FilterFields : Truthy(g, d[g]) } |-> d[f]]

\* what the caller passes for a field
CnfValues(f) ==
    CASE f = "since" -> { Some(0), Some(5) }
      [] f = "until" -> { Some(0), Some(7) }
      [] f = "limit" -> { Some(0), Some(5) }
      [] f = "kinds" -> { <<>>, <<1>>, <<0, 1>> }
      [] OTHER       -> { <<>> }

CnfFields == {"since", "until", "limit", "kinds"}

\* the cnf of Filter(cnf): any of the fields, each with one of its values
FilterCnfs ==
    UNION { { c \in [D -> UNION { CnfValues(f) : f \in CnfFields }] :
                \A f \in D : c[f] \in CnfValues(f) } : D \in SUBSET CnfFields }

InitFilter ==
    /\ ClientInit
    /\ ApplyIdle
    /\ EventIdle
    /\ b32 = NoB32
    /\ flt = NoFlt

\* Filter(cnf)
filter_init(cnf) ==
    /\ flt.dict = None
    /\ flt' = [flt EXCEPT !.cnf = Some(cnf),
                          !.dict = Some(FilterLoad(FilterNew, cnf))]
    /\ UNCHANGED <<client_vars, apply_vars, event_vars, b32>>

filter_apply ==
    /\ flt.dict # None /\ flt.out = None
    /\ flt' = [flt EXCEPT !.out = Some(FilterApply(flt.dict[1]))]
    /\ UNCHANGED <<client_vars, apply_vars, event_vars, b32>>

NextFilter ==
    \/ \E cnf \in FilterCnfs : filter_init(cnf)
    \/ filter_apply

SpecFilter == InitFilter /\ [][NextFilter]_vars

\* C15: apply() returns a map with a key for exactly the fields whose value
\* is set (neither None nor an empty list), each with its current value: a
\* since, until or limit of 0 is included, an unset field is not.
C15_ApplyKeepsSetFields ==
    (flt.out # None) =>
        LET d == flt.dict[1]
            out == flt.out[1]
        IN  /\ DOMAIN out = { f \in FilterFields : d[f] # <<>> }
            /\ \A f \in DOMAIN out : out[f] = d[f]

(***************************************************************************)
(* Claims about the relay session client (Spec)                            *)
(***************************************************************************)
\* C1: at any time at most one connection activity (__loop) is running (and
\* at most one delivery activity): a subscribe() made while an activity of
\* an earlier subscribe() still runs starts nothing.
C1_AtMostOneConnectionActivity ==
    Cardinality({ s \in Sessions : Running(s) }) <= 1

\* C2: once unsubscribe() was called in a live session, the session always
\* comes to its end: as long as the close-request waits in the queue and the
\* delivery activity has not terminated, some background activity can still
\* take a step (the activities never come to rest with the close-request
\* undrained).
C2_UnsubscribeEndsSession ==
    (RespAlive /\ \E i \in 1..Len(request) :
                     request[i].type = "CLOSE" /\ request[i].live)
        => ENABLED Background

\* C4: while the stop flag is clear the connection activity of the session
\* is never ended by what the transport does: it is still running.
C4_TransportNeverEndsSession ==
    (nsub > 0 /\ ~stop) => Running(nsub)

\* C5: no inbound frame, however malformed, ends the delivery activity: it
\* terminates by the "STOP" item only, never by an exception.
C5_MalformedFrameKeepsDelivery ==
    resp_pc # "raised"

\* C6: push_event and send_event return without error (having appended one
\* ["EVENT", event] request to self.request).
C6_PushEventEnqueues ==
    result.op \in {"push_event", "send_event"} => result.err = "none"

\* C12: after unsubscribe() is called in a live session the delivery activity
\* terminates within one receive-timeout interval, whatever the connection
\* activity is doing at the call: while the delivery activity still runs, the
\* connection activity has waited through at most one whole timeout since
\* the call.
C12_DeliveryEndsWithinOneTimeout ==
    closing.on => closing.waited <= 1

\* C16: the connection activity forwards the requests in the order they were
\* enqueued, one per loop iteration, up to the close-request: once it has
\* taken the close-request from the queue, the activity of a session takes
\* (and forwards) no request enqueued after it.
C16_NothingForwardedAfterClose ==
    \A s \in Sessions : loop_closed[s] # "more"

\* the "STOP" items the __loop of session s has put so far: line 195 is the
\* coroutine's last statement, reached only when the outer loop is left
SentinelsPushed(s) == IF loop_pc[s] = "done" THEN 1 ELSE 0

\* C17: whichever way the connection activity of a session is left, it has
\* pushed the sentinel exactly once (with the stop flag set, and after every
\* inbound frame of the session).
C17_SentinelPushedOnce ==
    \A s \in Sessions :
        (loop_pc[s] # "idle" /\ ~Running(s)) => SentinelsPushed(s) = 1

\* C19: the stop flag of a session is set only by a close-request enqueued
\* after that session's subscribe(), i.e. one that carries the id of the
\* current subscription; a request left in the queue from before never
\* stops the session.
C19_StaleCloseNeverStops ==
    [][(~stop /\ stop') =>
          (request # <<>> /\ Head(request).type = "CLOSE"
                          /\ Head(request).sid = sub_id)]_vars

\* C20: the delivery activity ends only on the sentinel that __loop put; no
\* text frame received from the relay is taken for it.
C20_OnlySentinelEndsDelivery ==
    [][(resp_pc = "run" /\ resp_pc' = "done") =>
          (response # <<>> /\ Head(response).from = "loop")]_vars

(***************************************************************************)
(* The dedup window (subscribe, apply)                                     *)
(***************************************************************************)
IdsOf(h) == [i \in 1..Len(h) |-> h[i].id]
FirstN(q, n) == SubSeq(q, 1, IF Len(q) > n THEN n ELSE Len(q))
NoDuplicate(q) == \A i, j \in 1..Len(q) : i # j => q[i] # q[j]
\* the recorded events for which something was printed
Printed(h) == SelectSeq(h, LAMBDA r : r.shown)

\* the window is bounded by the filter's limit, holds no id twice, and is
\* the newest `limit` ids of the events in history h
WindowOf(h) ==
    /\ Len(trace) <= filter.limit
    /\ NoDuplicate(trace)
    /\ trace = FirstN(IdsOf(h), filter.limit)

\* a successful subscribe() leaves an empty window, a clear stop flag and a
\* subscription id that differs from the one before
SubscribeStartsAfresh ==
    [][nsub' = nsub + 1 =>
          (trace' = <<>> /\ ~stop' /\ sub_id' # sub_id)]_vars

\* C18 as stated: the window is made of the ids most recently rendered
\* (printed) in the current session.
C18_WindowOfRenderedIds == WindowOf(Printed(seen))

\* C18: in every reachable state the dedup window holds at most `limit` ids,
\* none twice, and consists of the ids most recently recorded by apply() in
\* the current session (the events that passed the dedup check, printed or
\* not); each successful subscribe() starts with an empty window, a clear
\* stop flag and a new subscription id.
C18_WindowOfRecordedIds == []WindowOf(seen) /\ SubscribeStartsAfresh

\* the second session's window of one id has dropped an older id for a
\* newer one
C18_Witness ==
    /\ nsub = 2 /\ filter.limit = 1
    /\ Len(seen) = 2 /\ seen[1].id # seen[2].id
    /\ trace = <<seen[1].id>>

(***************************************************************************)
(* Events waiting in the request queue (SpecSend)                          *)
(***************************************************************************)
\* the events put in the queue: signed by key 1
SignedEvents == { Sign(Event(None, Some(1), Some(1), <<>>, Some("a")), 1).ev }

\* self.request.put(["EVENT", evnt.__dict__]) with a signed event: the last
\* statement of push_event, made on the client's `request` attribute
put_event(e) ==
    /\ Len(request) < MaxRequest
    /\ request' = Append(request, EventReq(e))
    /\ result' = [op |-> "put", err |-> "none"]
    /\ UNCHANGED <<response, stop, sub_id, filter, trace, ws, loop_pc,
                   loop_req, conn_first, resp_pc, nsub>>
    /\ UNCHANGED history_vars
    /\ UNCHANGED <<apply_vars, event_vars, pure_vars>>

\* the subscription the events are sent under
SendFilterArgs == { [kinds |-> 1, limit |-> 1] }

NextSend ==
    \/ \E cnf \in SendFilterArgs : subscribe(cnf)
    \/ unsubscribe
    \/ \E e \in SignedEvents : put_event(e)
    \/ \E s \in Sessions : Connection(s)
    \/ manage_resp

SpecSend == Init /\ [][NextSend]_vars

\* C21: an EVENT request taken from the queue is not dropped when its send
\* fails (connection closed, timeout): unless the send succeeded and __loop
\* went on to receive, the request is still held or back at the head of the
\* queue, to be sent after the reconnect.
C21_FailedSendNotDropped ==
    [][\A s \in Sessions :
          (loop_pc[s] = "send" /\ loop_req[s].type = "EVENT"
                               /\ loop_pc'[s] \notin {"send", "recv"})
          => \/ loop_req'[s] = loop_req[s]
             \/ (request' # <<>> /\ Head(request') = loop_req[s])]_vars

====
